---- MODULE Spec2Model ----
(***************************************************************************)
(* Model of the contact directory of src/07.py (and of Record.remove_phone *)
(* of src/hw_07.py): the value types Phone and Birthday, Record,           *)
(* AddressBook with the upcoming-birthdays query, and the command handlers *)
(* wrapped by input_error.                                                 *)
(*                                                                         *)
(* Strings that the program parses or validates (phones, dates) are tuples *)
(* of one-character strings; contact names are opaque tokens.  A Python    *)
(* Optional is a sequence of length 0 (None) or 1.                         *)
(***************************************************************************)
EXTENDS Integers, Sequences, FiniteSets, TLC

VARIABLES book, lastCmd, lastArgs, lastResult, today, days

vars == <<book, lastCmd, lastArgs, lastResult, today, days>>

(***************************************************************************)
(* Bounds of the model.                                                    *)
(***************************************************************************)
\* Longest phone list a Record is grown to by the direct Record operations.
MaxPhones == 3

(***************************************************************************)
(* Characters and str.isdigit.                                             *)
(***************************************************************************)
DigitChars == <<"0", "1", "2", "3", "4", "5", "6", "7", "8", "9">>

IsDigit(c) == \E i \in 1..Len(DigitChars) : DigitChars[i] = c

\* str.isdigit(): non-empty and every character a digit.
IsDigitStr(s) == Len(s) > 0 /\ \A i \in 1..Len(s) : IsDigit(s[i])

DigitVal(c) == (CHOOSE i \in 1..Len(DigitChars) : DigitChars[i] = c) - 1

RECURSIVE IntOf(_)
\* int(s) of a digit string.
IntOf(s) ==
    IF Len(s) = 0 THEN 0
    ELSE 10 * IntOf(SubSeq(s, 1, Len(s) - 1)) + DigitVal(s[Len(s)])

\* Zero-padded decimal rendering of n on w characters (strftime fields).
RECURSIVE Pad(_, _)
Pad(n, w) ==
    IF w = 0 THEN <<>>
    ELSE Append(Pad(n \div 10, w - 1), DigitChars[(n % 10) + 1])

(***************************************************************************)
(* Phone: the validating constructor.                                      *)
(***************************************************************************)
PhoneLen == 10

\* Phone.__init__: TRUE when the constructor raises PhoneError.
PhoneRaises(value) == Len(value) # PhoneLen \/ ~IsDigitStr(value)

(***************************************************************************)
(* Calendar arithmetic of datetime: proleptic Gregorian ordinals.          *)
(***************************************************************************)
Date(y, m, d) == [year |-> y, month |-> m, day |-> d]

IsLeap(y) == y % 4 = 0 /\ (y % 100 # 0 \/ y % 400 = 0)

DaysInMonth(y, m) ==
    IF m = 2 THEN (IF IsLeap(y) THEN 29 ELSE 28)
    ELSE IF m \in {4, 6, 9, 11} THEN 30 ELSE 31

\* Whether (y, m, d) is a date datetime accepts.
IsRealDate(y, m, d) ==
    /\ y \in 1..9999
    /\ m \in 1..12
    /\ d \in 1..DaysInMonth(y, m)

DaysBeforeYear(y) ==
    (y - 1) * 365 + ((y - 1) \div 4) - ((y - 1) \div 100) + ((y - 1) \div 400)

RECURSIVE DaysBeforeMonth(_, _)
DaysBeforeMonth(y, m) ==
    IF m = 1 THEN 0 ELSE DaysBeforeMonth(y, m - 1) + DaysInMonth(y, m - 1)

ToOrdinal(dt) ==
    DaysBeforeYear(dt.year) + DaysBeforeMonth(dt.year, dt.month) + dt.day

FromOrdinal(n) ==
    LET y == CHOOSE yy \in ((n \div 366))..((n \div 365) + 1) :
                 yy >= 1 /\ DaysBeforeYear(yy) < n /\ n <= DaysBeforeYear(yy + 1)
        r == n - DaysBeforeYear(y)
        m == CHOOSE mm \in 1..12 :
                 DaysBeforeMonth(y, mm) < r /\ r <= DaysBeforeMonth(y, mm) + DaysInMonth(y, mm)
    IN  Date(y, m, r - DaysBeforeMonth(y, m))

\* datetime.weekday(): Monday is 0, Sunday is 6.
Weekday(dt) == (ToOrdinal(dt) + 6) % 7

\* date + timedelta(days = n)
AddDays(dt, n) == FromOrdinal(ToOrdinal(dt) + n)

(***************************************************************************)
(* Birthday: strptime / strftime with FORMAT '%d.%m.%Y'.                   *)
(***************************************************************************)
NonZeroDigit(c) == IsDigit(c) /\ c # "0"

\* The directive %d: 3[0-1] | [1-2]\d | 0[1-9] | [1-9] | ' '[1-9]
DayField(f) ==
    \/ Len(f) = 2 /\ f[1] = "3" /\ f[2] \in {"0", "1"}
    \/ Len(f) = 2 /\ f[1] \in {"1", "2"} /\ IsDigit(f[2])
    \/ Len(f) = 2 /\ f[1] = "0" /\ NonZeroDigit(f[2])
    \/ Len(f) = 1 /\ NonZeroDigit(f[1])
    \/ Len(f) = 2 /\ f[1] = " " /\ NonZeroDigit(f[2])

\* The directive %m: 1[0-2] | 0[1-9] | [1-9]
MonthField(f) ==
    \/ Len(f) = 2 /\ f[1] = "1" /\ f[2] \in {"0", "1", "2"}
    \/ Len(f) = 2 /\ f[1] = "0" /\ NonZeroDigit(f[2])
    \/ Len(f) = 1 /\ NonZeroDigit(f[1])

\* The directive %Y: \d\d\d\d
YearField(f) == Len(f) = 4 /\ IsDigitStr(f)

FieldInt(f) == IF f[1] = " " THEN IntOf(Tail(f)) ELSE IntOf(f)

DotPositions(s) == {i \in 1..Len(s) : s[i] = "."}

\* The three fields of s when s has the shape <field>.<field>.<field>.
Fields(s) ==
    LET dots == DotPositions(s)
        i == CHOOSE k \in dots : \A o \in dots : k <= o
        j == CHOOSE k \in dots : \A o \in dots : k >= o
    IN  <<SubSeq(s, 1, i - 1), SubSeq(s, i + 1, j - 1), SubSeq(s, j + 1, Len(s))>>

\* datetime.strptime(value, '%d.%m.%Y') raises ValueError.
StrptimeRaises(s) ==
    \/ Cardinality(DotPositions(s)) # 2
    \/ LET f == Fields(s)
       IN  \/ ~DayField(f[1])
           \/ ~MonthField(f[2])
           \/ ~YearField(f[3])
           \/ ~IsRealDate(FieldInt(f[3]), FieldInt(f[2]), FieldInt(f[1]))

\* datetime.strptime(value, '%d.%m.%Y') when it does not raise.
Strptime(s) ==
    LET f == Fields(s) IN Date(FieldInt(f[3]), FieldInt(f[2]), FieldInt(f[1]))

RECURSIVE Dec(_)
\* Decimal rendering without padding (%Y of the C library).
Dec(n) == IF n < 10 THEN <<DigitChars[n + 1]>>
          ELSE Append(Dec(n \div 10), DigitChars[(n % 10) + 1])

\* date.strftime('%d.%m.%Y')
Strftime(dt) == Pad(dt.day, 2) \o <<".">> \o Pad(dt.month, 2) \o <<".">> \o Dec(dt.year)

\* AddressBook.date_to_string
date_to_string(dt) == Strftime(dt)

(***************************************************************************)
(* Values a handler returns, and outcomes of calls that may raise.         *)
(***************************************************************************)
\* A fixed text.
Text(t) == [kind |-> "text", text |-> t, data |-> <<>>]
\* A computed string.
Chars(s) == [kind |-> "chars", text |-> "", data |-> s]
\* Record.__str__: 'Contact name: {name}, phones: {p1; p2; ...}'
RecordStr(rec) == [kind |-> "record", text |-> rec.name, data |-> rec.phones]
\* table(left, right, data): the rendered rows, in order.
Table(head, rows) == [kind |-> "table", text |-> head, data |-> rows]
\* An exception that reaches the caller of the wrapped handler.
Propagated(exc) == [kind |-> "raise", text |-> exc, data |-> <<>>]

PhoneErrorMsg == "Give me a valid phone number, please."
BirthdayErrorMsg == "Invalid date format. Use DD.MM.YYYY"
RecordErrorMsg == "Give me an existing name, please."

\* Outcome of a call: the book afterwards, the exception raised ("none" when
\* the call returned) and the value returned.
Returned(bk, v) == [book |-> bk, exc |-> "none", ret |-> v]
Raised(bk, e) == [book |-> bk, exc |-> e, ret |-> Text("")]

(***************************************************************************)
(* Record.                                                                 *)
(***************************************************************************)
\* Record.__init__
NewRecord(name) == [name |-> name, phones |-> <<>>, birthday |-> <<>>]

\* Record.__find: index of the first phone equal to the argument, 0 for None.
Find(phones, phone) ==
    IF \E i \in 1..Len(phones) : phones[i] = phone
    THEN CHOOSE i \in 1..Len(phones) :
             phones[i] = phone /\ \A k \in 1..(i - 1) : phones[k] # phone
    ELSE 0

\* del list[id]
DelAt(s, id) == SubSeq(s, 1, id - 1) \o SubSeq(s, id + 1, Len(s))

\* Record.add_phone: [exc, rec], rec being the record as the call leaves it.
add_phone(rec, phone) ==
    IF PhoneRaises(phone) THEN [exc |-> "PhoneError", rec |-> rec]
    ELSE [exc |-> "none", rec |-> [rec EXCEPT !.phones = Append(@, phone)]]

\* The test 'if id' for 'if id is not None': the first phone is never removed.
remove_phone_truthy(phones, phone) ==
    LET id == Find(phones, phone) IN IF id > 1 THEN DelAt(phones, id) ELSE phones

\* Record.remove_phone on the phone list.
remove_phone(phones, phone) ==
    LET id == Find(phones, phone) IN IF id # 0 THEN DelAt(phones, id) ELSE phones

\* A replace that deletes the old phone before the new one is validated.
edit_phone_delete_first(rec, current, new) ==
    LET id == Find(rec.phones, current) IN
    IF id = 0 THEN [exc |-> "ValueError", rec |-> rec]
    ELSE IF PhoneRaises(new)
    THEN [exc |-> "PhoneError", rec |-> [rec EXCEPT !.phones = DelAt(@, id)]]
    ELSE [exc |-> "none", rec |-> [rec EXCEPT !.phones[id] = new]]

\* Record.edit_phone: [exc, rec], rec being the record as the call leaves it.
edit_phone(rec, current, new) ==
    LET id == Find(rec.phones, current) IN
    IF id = 0 THEN [exc |-> "ValueError", rec |-> rec]
    ELSE IF PhoneRaises(new) THEN [exc |-> "PhoneError", rec |-> rec]
    ELSE [exc |-> "none", rec |-> [rec EXCEPT !.phones[id] = new]]

\* Record.add_birthday: [exc, rec], rec being the record as the call leaves it.
rec_add_birthday(rec, birthday) ==
    IF StrptimeRaises(birthday) THEN [exc |-> "BirthdayError", rec |-> rec]
    ELSE [exc |-> "none", rec |-> [rec EXCEPT !.birthday = <<Strptime(birthday)>>]]

\* Birthday.__str__ / str(None) as used by show_birthday.
BirthdayStr(birthday) ==
    IF Len(birthday) = 0 THEN Text("None")
    ELSE Chars(Strftime(birthday[1]))

RECURSIVE hw_remove_loop(_, _, _)
\* src/hw_07.py Record.remove_phone: a for loop over the list that removes
\* from the list it iterates; i is the iterator's index (1-based).
hw_remove_loop(phones, phone, i) ==
    IF i > Len(phones) THEN phones
    ELSE IF phones[i] = phone
         THEN hw_remove_loop(DelAt(phones, i), phone, i + 1)
         ELSE hw_remove_loop(phones, phone, i + 1)

hw_remove_phone(phones, phone) == hw_remove_loop(phones, phone, 1)

(***************************************************************************)
(* AddressBook: an insertion-ordered dict of key -> Record.                *)
(***************************************************************************)
Keys(bk) == {bk[i].key : i \in 1..Len(bk)}

IndexOf(bk, key) == CHOOSE i \in 1..Len(bk) : bk[i].key = key

\* self.data[key] = rec
DictSet(bk, key, rec) ==
    IF key \in Keys(bk) THEN [bk EXCEPT ![IndexOf(bk, key)].rec = rec]
    ELSE Append(bk, [key |-> key, rec |-> rec])

\* AddressBook.add_record
add_record(bk, rec) == DictSet(bk, rec.name, rec)

\* AddressBook.find raises RecordError.
FindRaises(bk, name) == name \notin Keys(bk)

\* AddressBook.find when it does not raise.
FindRec(bk, name) == bk[IndexOf(bk, name)].rec

\* AddressBook.delete
delete(bk, name) ==
    IF \E i \in 1..Len(bk) : bk[i].rec.name = name
    THEN DelAt(bk, CHOOSE i \in 1..Len(bk) :
                       bk[i].rec.name = name /\ \A k \in 1..(i - 1) : bk[k].rec.name # name)
    ELSE bk

(***************************************************************************)
(* The upcoming-birthdays query.  A moment is a date and the seconds       *)
(* elapsed since its midnight; a stored birthday is a date at midnight.    *)
(***************************************************************************)
Moment(dt, secs) == [date |-> dt, secs |-> secs]

\* datetime.replace(year = y) raises ValueError.
ReplaceYearRaises(dt, y) == ~IsRealDate(y, dt.month, dt.day)

\* datetime.replace(year = y) when it does not raise.
ReplaceYear(dt, y) == Date(y, dt.month, dt.day)

\* real < today, real being a midnight.
Before(real, now) ==
    \/ ToOrdinal(real) < ToOrdinal(now.date)
    \/ ToOrdinal(real) = ToOrdinal(now.date) /\ 0 < now.secs

\* (real - today).days: a timedelta's days are the floor of the difference.
\* The whole days are taken out of the quotient to stay within 32 bits.
DeltaDays(real, now) ==
    (ToOrdinal(real) - ToOrdinal(now.date)) + ((0 - now.secs) \div 86400)

\* AddressBook.find_next_weekday
find_next_weekday(start_date, weekday) ==
    LET days_ahead == weekday - Weekday(start_date)
    IN  AddDays(start_date, IF days_ahead <= 0 THEN days_ahead + 7 ELSE days_ahead)

\* A slip in the weekend test: Saturday is taken for a working day.
adjust_for_weekend_sat(birthday) ==
    IF Weekday(birthday) > 5 THEN find_next_weekday(birthday, 0) ELSE birthday

\* AddressBook.adjust_for_weekend
adjust_for_weekend(birthday) ==
    IF Weekday(birthday) >= 5 THEN find_next_weekday(birthday, 0) ELSE birthday

\* dates[event].append(name), creating the list first when the key is new;
\* dates is the insertion-ordered dict as a sequence of [event, names].
EventAppend(dates, event, name) ==
    IF \E i \in 1..Len(dates) : dates[i].event = event
    THEN LET i == CHOOSE k \in 1..Len(dates) : dates[k].event = event
         IN  [dates EXCEPT ![i].names = Append(@, name)]
    ELSE Append(dates, [event |-> event, names |-> <<name>>])

RECURSIVE upcoming_loop(_, _, _, _, _)
\* The for loop of get_upcoming_birthdays from the i-th item of the dict on.
upcoming_loop(bk, now, window, i, dates) ==
    IF i > Len(bk) THEN [exc |-> "none", dates |-> dates]
    ELSE IF Len(bk[i].rec.birthday) = 0
    THEN upcoming_loop(bk, now, window, i + 1, dates)
    ELSE LET bd == bk[i].rec.birthday[1]
             year == now.date.year
         IN
         IF ReplaceYearRaises(bd, year)
         THEN [exc |-> "ValueError", dates |-> dates]
         ELSE IF Before(ReplaceYear(bd, year), now) /\ ReplaceYearRaises(bd, year + 1)
         THEN [exc |-> "ValueError", dates |-> dates]
         ELSE LET real == IF Before(ReplaceYear(bd, year), now)
                          THEN ReplaceYear(bd, year + 1)
                          ELSE ReplaceYear(bd, year)
                  delta == DeltaDays(real, now)
              IN  IF 0 <= delta /\ delta <= window
                  THEN upcoming_loop(bk, now, window, i + 1,
                           EventAppend(dates, date_to_string(adjust_for_weekend(real)),
                                       bk[i].key))
                  ELSE upcoming_loop(bk, now, window, i + 1, dates)

\* AddressBook.get_upcoming_birthdays(days): [exc, dates]
get_upcoming_birthdays(bk, now, window) == upcoming_loop(bk, now, window, 1, <<>>)

\* The default of the parameter days.
DefaultDays == 7

(***************************************************************************)
(* The command handlers, before input_error wraps them.                    *)
(***************************************************************************)
\* The order of a bug that stores the record before its phone is validated.
add_contact_early(args, bk) ==
    IF Len(args) < 2 THEN Raised(bk, "ValueError")
    ELSE IF FindRaises(bk, args[1])
    THEN LET stored == add_record(bk, NewRecord(args[1]))
             r == add_phone(NewRecord(args[1]), args[2])
         IN  IF r.exc # "none" THEN Raised(stored, r.exc)
             ELSE Returned(add_record(stored, r.rec), Text("Contact added."))
    ELSE Returned(bk, Text("Contact is already added."))

\* A handler without the guard: an existing contact is overwritten.
add_contact_overwrite(args, bk) ==
    IF Len(args) < 2 THEN Raised(bk, "ValueError")
    ELSE LET r == add_phone(NewRecord(args[1]), args[2])
         IN  IF r.exc # "none" THEN Raised(bk, r.exc)
             ELSE Returned(add_record(bk, r.rec), Text("Contact added."))

add_contact(args, bk) ==
    IF Len(args) < 2 THEN Raised(bk, "ValueError")
    ELSE IF FindRaises(bk, args[1])
    THEN LET r == add_phone(NewRecord(args[1]), args[2])
         IN  IF r.exc # "none" THEN Raised(bk, r.exc)
             ELSE Returned(add_record(bk, r.rec), Text("Contact added."))
    ELSE Returned(bk, Text("Contact is already added."))

\* The record found is changed in place, under the key it was found by:
\* what edit_phone did to it before raising stays done.
change_contact(args, bk) ==
    IF Len(args) < 2 THEN Raised(bk, "ValueError")
    ELSE IF FindRaises(bk, args[1]) THEN Raised(bk, "RecordError")
    ELSE LET record == FindRec(bk, args[1]) IN
         IF Len(record.phones) = 0 THEN Raised(bk, "IndexError")
         ELSE LET r == edit_phone(record, record.phones[1], args[2])
              IN  IF r.exc # "none" THEN Raised(DictSet(bk, args[1], r.rec), r.exc)
                  ELSE Returned(DictSet(bk, args[1], r.rec), Text("Contact updated."))

show_phone(args, bk) ==
    IF Len(args) < 1 THEN Raised(bk, "IndexError")
    ELSE IF FindRaises(bk, args[1]) THEN Raised(bk, "RecordError")
    ELSE Returned(bk, RecordStr(FindRec(bk, args[1])))

\* table() takes max() of the cell widths: ValueError on an empty dict.
table(head, rows, bk) ==
    IF Len(rows) = 0 THEN Raised(bk, "ValueError")
    ELSE Returned(bk, Table(head, rows))

show_all(bk) ==
    IF \E i \in 1..Len(bk) : Len(bk[i].rec.phones) = 0
    THEN Raised(bk, "IndexError")
    ELSE table("Full name|Phone number",
               [i \in 1..Len(bk) |-> <<bk[i].key, bk[i].rec.phones[1]>>], bk)

add_birthday(args, bk) ==
    IF Len(args) < 2 THEN Raised(bk, "ValueError")
    ELSE IF FindRaises(bk, args[1]) THEN Raised(bk, "RecordError")
    ELSE LET r == rec_add_birthday(FindRec(bk, args[1]), args[2])
         IN  IF r.exc # "none" THEN Raised(DictSet(bk, args[1], r.rec), r.exc)
             ELSE Returned(DictSet(bk, args[1], r.rec), Text("Birthday added."))

show_birthday(args, bk) ==
    IF Len(args) < 1 THEN Raised(bk, "IndexError")
    ELSE IF FindRaises(bk, args[1]) THEN Raised(bk, "RecordError")
    ELSE Returned(bk, BirthdayStr(FindRec(bk, args[1]).birthday))

birthdays(bk, now) ==
    LET events == get_upcoming_birthdays(bk, now, DefaultDays)
    IN  IF events.exc # "none" THEN Raised(bk, events.exc)
        ELSE table("Date|Users",
                   [i \in 1..Len(events.dates) |->
                       <<events.dates[i].event, events.dates[i].names>>], bk)

(***************************************************************************)
(* input_error: the handler each command name selects in HANDLERS.  A      *)
(* handler that returns the exception object returns its message here.     *)
(***************************************************************************)
AddShapeMsg == "Give me a new name and a new phone, please."
ChangeShapeMsg == "Give me an existing name and a new phone, please."
BirthdayShapeMsg == "Give me an existing name and birthday date, please."
EmptyContactsMsg == "Contacts list is empty."
EmptyBirthdaysMsg == "Birthdays list is empty."

add_contact_error(args, bk) ==
    LET r == add_contact(args, bk) IN
    CASE r.exc = "PhoneError" -> Returned(r.book, Text(PhoneErrorMsg))
      [] r.exc = "ValueError" -> Returned(r.book, Text(AddShapeMsg))
      [] OTHER -> r

\* A table whose shape error is the one of add_contact.
change_contact_error_mixed(args, bk) ==
    LET r == change_contact(args, bk) IN
    CASE r.exc = "PhoneError" -> Returned(r.book, Text(PhoneErrorMsg))
      [] r.exc = "RecordError" -> Returned(r.book, Text(RecordErrorMsg))
      [] r.exc = "ValueError" -> Returned(r.book, Text(AddShapeMsg))
      [] OTHER -> r

change_contact_error(args, bk) ==
    LET r == change_contact(args, bk) IN
    CASE r.exc = "PhoneError" -> Returned(r.book, Text(PhoneErrorMsg))
      [] r.exc = "RecordError" -> Returned(r.book, Text(RecordErrorMsg))
      [] r.exc = "ValueError" -> Returned(r.book, Text(ChangeShapeMsg))
      [] OTHER -> r

show_phone_error(args, bk) ==
    LET r == show_phone(args, bk) IN
    CASE r.exc = "RecordError" -> Returned(r.book, Text(RecordErrorMsg))
      [] r.exc = "IndexError" -> Returned(r.book, Text(RecordErrorMsg))
      [] OTHER -> r

show_all_error(bk) ==
    LET r == show_all(bk) IN
    CASE r.exc = "ValueError" -> Returned(r.book, Text(EmptyContactsMsg))
      [] OTHER -> r

add_birthday_error(args, bk) ==
    LET r == add_birthday(args, bk) IN
    CASE r.exc = "BirthdayError" -> Returned(r.book, Text(BirthdayErrorMsg))
      [] r.exc = "RecordError" -> Returned(r.book, Text(RecordErrorMsg))
      [] r.exc = "ValueError" -> Returned(r.book, Text(BirthdayShapeMsg))
      [] OTHER -> r

show_birthday_error(args, bk) ==
    LET r == show_birthday(args, bk) IN
    CASE r.exc = "IndexError" -> Returned(r.book, Text(RecordErrorMsg))
      [] r.exc = "RecordError" -> Returned(r.book, Text(RecordErrorMsg))
      [] OTHER -> r

birthdays_error(bk, now) ==
    LET r == birthdays(bk, now) IN
    CASE r.exc = "ValueError" -> Returned(r.book, Text(EmptyBirthdaysMsg))
      [] OTHER -> r

\* What the caller of a wrapped handler gets: the value, or the exception.
Outcome(r) == IF r.exc = "none" THEN r.ret ELSE Propagated(r.exc)

(***************************************************************************)
(* Inputs.                                                                 *)
(***************************************************************************)
\* Tokens a command line may carry beyond the two a handler unpacks.
MaxExtra == 1

Names == {"Alice", "Bob"}

P1 == <<"0", "9", "9", "1", "2", "3", "4", "5", "6", "7">>
P2 == <<"0", "5", "0", "7", "6", "5", "4", "3", "2", "1">>
PShort == <<"1", "2", "3">>
PLong == <<"0", "9", "9", "1", "2", "3", "4", "5", "6", "7", "8">>
PAlpha == <<"0", "9", "9", "1", "2", "3", "4", "5", "6", "x">>

ValidPhones == {P1, P2}
PhoneInputs == {P1, P2, PShort, PLong, PAlpha}

D_15_03 == <<"1", "5", ".", "0", "3", ".", "2", "0", "0", "0">>
D_10_03 == <<"1", "0", ".", "0", "3", ".", "2", "0", "0", "0">>
D_12_03 == <<"1", "2", ".", "0", "3", ".", "1", "9", "9", "9">>
D_16_03 == <<"1", "6", ".", "0", "3", ".", "2", "0", "0", "1">>
D_17_03 == <<"1", "7", ".", "0", "3", ".", "2", "0", "0", "0">>
D_18_03 == <<"1", "8", ".", "0", "3", ".", "2", "0", "0", "0">>
D_29_02 == <<"2", "9", ".", "0", "2", ".", "2", "0", "0", "0">>
D_02_01 == <<"0", "2", ".", "0", "1", ".", "1", "9", "9", "0">>
\* Accepted by strptime although day and month are not zero-padded.
D_1_3 == <<"1", ".", "3", ".", "2", "0", "0", "0">>
\* Rejected: not a real date, wrong separators, a fifth year digit.
D_31_02 == <<"3", "1", ".", "0", "2", ".", "2", "0", "2", "4">>
D_29_02_25 == <<"2", "9", ".", "0", "2", ".", "2", "0", "2", "5">>
D_Dashes == <<"2", "0", "0", "0", "-", "0", "3", "-", "1", "5">>
D_Long == <<"0", "1", ".", "0", "3", ".", "2", "0", "0", "0", "0">>

\* Dates the commands are given.
DateInputs == {D_15_03, D_29_02, D_1_3, D_31_02, D_29_02_25, D_Dashes, D_Long}

\* Stored birthdays of the books the query is applied to.
QueryDateInputs ==
    {D_15_03, D_10_03, D_12_03, D_16_03, D_17_03, D_18_03, D_29_02, D_02_01, D_1_3}

Extra == <<"x">>

RECURSIVE Extras(_)
Extras(n) == IF n = 0 THEN <<>> ELSE Append(Extras(n - 1), Extra)

\* Argument lists of a command that unpacks a name and a second token:
\* empty, the name alone, both, and both followed by further tokens.
ArgLists2(names, seconds) ==
    {<<>>} \cup {<<n>> : n \in names}
           \cup {<<n, x>> \o Extras(k) : n \in names, x \in seconds, k \in 0..MaxExtra}

\* Argument lists of a command that reads args[0] only.
ArgLists1(names) ==
    {<<>>} \cup {<<n>> \o Extras(k) : n \in names, k \in 0..MaxExtra}

\* The clock was not read.
NoMoment == Moment(Date(1, 1, 1), 0)

\* Values of datetime.today(): midnight sharp and noon of a day.
DayMoments(dt) == {Moment(dt, 0), Moment(dt, 43200)}

\* Monday 10.03.2025, and a day of the leap year 2024.
CmdMoments == DayMoments(Date(2025, 3, 10)) \cup {Moment(Date(2024, 2, 27), 43200)}

QueryMoments ==
    DayMoments(Date(2025, 3, 10)) \cup DayMoments(Date(2025, 3, 9))
        \cup DayMoments(Date(2024, 2, 27)) \cup DayMoments(Date(2025, 2, 26))
        \cup DayMoments(Date(2025, 12, 29)) \cup DayMoments(Date(2024, 12, 30))

QueryWindows == {0, 1, DefaultDays}

Commands ==
    {"add", "change", "phone", "all", "add-birthday", "show-birthday", "birthdays"}

(***************************************************************************)
(* The commands of the interaction loop.                                   *)
(***************************************************************************)
Step(cmd, args, r, now) ==
    /\ book' = r.book
    /\ lastCmd' = cmd
    /\ lastArgs' = args
    /\ lastResult' = Outcome(r)
    /\ today' = now
    /\ days' = IF cmd = "birthdays" THEN DefaultDays ELSE 0

AddContact(names, phones) ==
    \E args \in ArgLists2(names, phones) :
        Step("add", args, add_contact_error(args, book), NoMoment)

ChangeContact(names, phones) ==
    \E args \in ArgLists2(names, phones) :
        Step("change", args, change_contact_error(args, book), NoMoment)

ShowPhone(names) ==
    \E args \in ArgLists1(names) :
        Step("phone", args, show_phone_error(args, book), NoMoment)

ShowAll == Step("all", <<>>, show_all_error(book), NoMoment)

AddBirthday(names, dates) ==
    \E args \in ArgLists2(names, dates) :
        Step("add-birthday", args, add_birthday_error(args, book), NoMoment)

ShowBirthday(names) ==
    \E args \in ArgLists1(names) :
        Step("show-birthday", args, show_birthday_error(args, book), NoMoment)

Birthdays ==
    \E now \in CmdMoments :
        Step("birthdays", <<>>, birthdays_error(book, now), now)

\* main(): book = AddressBook()
Init ==
    /\ book = <<>>
    /\ lastCmd = "start"
    /\ lastArgs = <<>>
    /\ lastResult = Text("Welcome to the assistant bot!")
    /\ today = NoMoment
    /\ days = 0

Next ==
    \/ AddContact(Names, PhoneInputs)
    \/ ChangeContact(Names, PhoneInputs)
    \/ ShowPhone(Names)
    \/ ShowAll
    \/ AddBirthday(Names, DateInputs)
    \/ ShowBirthday(Names)
    \/ Birthdays

Spec == Init /\ [][Next]_vars

(***************************************************************************)
(* The public operations of Record and AddressBook, called directly on the *)
(* book next to the commands.  An exception of a direct call reaches its   *)
(* caller.  One contact name keeps the phone lists, not the number of      *)
(* contacts, the dimension that grows.                                     *)
(***************************************************************************)
ApiNames == {"Alice"}
ApiPhones == {P1, P2, PShort}
ApiDates == {D_15_03, D_31_02}

ApiStep(cmd, args, bk, exc) ==
    /\ book' = bk
    /\ lastCmd' = cmd
    /\ lastArgs' = args
    /\ lastResult' = IF exc = "none" THEN Text("None") ELSE Propagated(exc)
    /\ today' = NoMoment
    /\ days' = 0

\* book.add_record(Record(name))
ApiAddRecord ==
    \E n \in ApiNames :
        ApiStep("AddressBook.add_record", <<n>>, add_record(book, NewRecord(n)), "none")

\* book.delete(name)
ApiDelete ==
    \E n \in ApiNames :
        ApiStep("AddressBook.delete", <<n>>, delete(book, n), "none")

\* book.find(name).add_phone(phone)
ApiAddPhone ==
    \E n \in ApiNames \cap Keys(book), p \in ApiPhones :
        /\ Len(FindRec(book, n).phones) < MaxPhones
        /\ LET r == add_phone(FindRec(book, n), p)
           IN  ApiStep("Record.add_phone", <<n, p>>, DictSet(book, n, r.rec), r.exc)

\* book.find(name).remove_phone(phone)
ApiRemovePhone ==
    \E n \in ApiNames \cap Keys(book), p \in ApiPhones :
        LET rec == FindRec(book, n)
        IN  ApiStep("Record.remove_phone", <<n, p>>,
                    DictSet(book, n, [rec EXCEPT !.phones = remove_phone(@, p)]), "none")

\* The same call on the Record of src/hw_07.py, whose fields are the same.
HwRemovePhone ==
    \E n \in ApiNames \cap Keys(book), p \in ApiPhones :
        LET rec == FindRec(book, n)
        IN  ApiStep("hw_07.Record.remove_phone", <<n, p>>,
                    DictSet(book, n, [rec EXCEPT !.phones = hw_remove_phone(@, p)]), "none")

\* book.find(name).edit_phone(current, new)
ApiEditPhone ==
    \E n \in ApiNames \cap Keys(book), c \in ValidPhones, p \in ApiPhones :
        LET r == edit_phone(FindRec(book, n), c, p)
        IN  ApiStep("Record.edit_phone", <<n, c, p>>, DictSet(book, n, r.rec), r.exc)

\* book.find(name).add_birthday(birthday)
ApiAddBirthday ==
    \E n \in ApiNames \cap Keys(book), d \in ApiDates :
        LET r == rec_add_birthday(FindRec(book, n), d)
        IN  ApiStep("Record.add_birthday", <<n, d>>, DictSet(book, n, r.rec), r.exc)

NextApi ==
    \/ ApiAddRecord
    \/ ApiDelete
    \/ ApiAddPhone
    \/ ApiRemovePhone
    \/ HwRemovePhone
    \/ ApiEditPhone
    \/ ApiAddBirthday
    \/ AddContact(ApiNames, ApiPhones)
    \/ ChangeContact(ApiNames, ApiPhones)
    \/ ShowPhone(ApiNames)
    \/ ShowAll
    \/ AddBirthday(ApiNames, ApiDates)
    \/ ShowBirthday(ApiNames)
    \/ Birthdays

SpecApi == Init /\ [][NextApi]_vars

(***************************************************************************)
(* get_upcoming_birthdays(days) as a function of the book, the clock and   *)
(* the window: the books are those the commands add and add-birthday       *)
(* build, one phone per record and the key equal to the name.              *)
(***************************************************************************)
BirthdayOptions == {<<>>} \cup {<<Strptime(s)>> : s \in QueryDateInputs}

Entry(n, b) == [key |-> n, rec |-> [name |-> n, phones |-> <<P1>>, birthday |-> b]]

QueryBooks ==
    {<<Entry("Alice", a), Entry("Bob", b)>> : a \in BirthdayOptions, b \in BirthdayOptions}

Events(dates) == [kind |-> "events", text |-> "", data |-> dates]

InitQuery ==
    /\ book \in QueryBooks
    /\ today \in QueryMoments
    /\ days \in QueryWindows
    /\ lastCmd = "start"
    /\ lastArgs = <<>>
    /\ lastResult = Text("")

Query ==
    /\ lastCmd = "start"
    /\ LET r == get_upcoming_birthdays(book, today, days)
       IN  lastResult' = IF r.exc = "none" THEN Events(r.dates) ELSE Propagated(r.exc)
    /\ lastCmd' = "get_upcoming_birthdays"
    /\ UNCHANGED <<book, lastArgs, today, days>>

NextQuery == Query

SpecQuery == InitQuery /\ [][NextQuery]_vars

(***************************************************************************)
(* Properties.                                                             *)
(***************************************************************************)
ErrorMessages ==
    {PhoneErrorMsg, BirthdayErrorMsg, RecordErrorMsg,
     AddShapeMsg, ChangeShapeMsg, BirthdayShapeMsg}

IsErrorMessage(res) == res.kind = "text" /\ res.text \in ErrorMessages

Count(s, p) == Cardinality({i \in 1..Len(s) : s[i] = p})

Without(s, p) == SelectSeq(s, LAMBDA x : x # p)

\* The inputs of DateInputs no reading of DD.MM.YYYY accepts.
InvalidDates == {D_31_02, D_29_02_25, D_Dashes, D_Long}

\* The first date on or after ref with the month and day of bd.
NextOccurrence(bd, ref) ==
    LET ok(y) == /\ IsRealDate(y, bd.month, bd.day)
                 /\ \/ y > ref.year
                    \/ bd.month > ref.month
                    \/ bd.month = ref.month /\ bd.day >= ref.day
        y == CHOOSE yy \in ref.year..(ref.year + 8) :
                 ok(yy) /\ \A z \in ref.year..(yy - 1) : ~ok(z)
    IN  Date(y, bd.month, bd.day)

\* Calendar days from the reference day to the next occurrence of bd.
DaysAway(bd, ref) == ToOrdinal(NextOccurrence(bd, ref)) - ToOrdinal(ref)

\* The day itself from Monday to Friday, else the first Monday after it.
Congratulation(dt) ==
    IF Weekday(dt) < 5 THEN dt
    ELSE FromOrdinal(CHOOSE o \in (ToOrdinal(dt) + 1)..(ToOrdinal(dt) + 7) : (o + 6) % 7 = 0)

\* The contact is reported by the last query.
Included(n) ==
    /\ lastResult.kind = "events"
    /\ \E i \in 1..Len(lastResult.data) :
           \E k \in 1..Len(lastResult.data[i].names) : lastResult.data[i].names[k] = n

IsLeapDay(b) == b # <<>> /\ b[1].month = 2 /\ b[1].day = 29

\* The year the occurrence of a leap-day birthday is looked for in.
TargetYear(now) ==
    IF IsLeap(now.date.year) /\ Before(Date(now.date.year, 2, 29), now)
    THEN now.date.year + 1
    ELSE now.date.year

\* C1: every wrapped command handler returns a message, whatever the
\* arguments and whatever book the public operations built: no exception
\* reaches the caller.
C1_NoExceptionPropagates ==
    lastCmd \in Commands => lastResult.kind # "raise"

\* C2: add with a valid phone answers 'Contact added.' exactly when the name
\* is not a key, and then the record found by the name has the phone list
\* [phone]; on a name that is a key it answers 'Contact is already added.'
\* and the book is left as it was.
C2_AddContact ==
    [][(lastCmd' = "add" /\ Len(lastArgs') >= 2 /\ lastArgs'[2] \in ValidPhones) =>
          IF lastArgs'[1] \notin Keys(book)
          THEN /\ lastResult' = Text("Contact added.")
               /\ ~FindRaises(book', lastArgs'[1])
               /\ FindRec(book', lastArgs'[1]).phones = <<lastArgs'[2]>>
               /\ FindRec(book', lastArgs'[1]).name = lastArgs'[1]
          ELSE /\ lastResult' = Text("Contact is already added.")
               /\ book' = book]_vars

\* An add of a known name with another valid phone, the contact having a
\* birthday: it was refused and the record kept.
C2_Witness ==
    /\ lastCmd = "add"
    /\ lastResult = Text("Contact is already added.")
    /\ lastArgs[2] \in ValidPhones
    /\ FindRec(book, lastArgs[1]).phones # <<lastArgs[2]>>
    /\ FindRec(book, lastArgs[1]).birthday # <<>>

\* C3: after a query that returned, a contact with a birthday is reported
\* if and only if the next occurrence of its month and day on or after the
\* reference day is 0 to days calendar days away.
C3_Window ==
    (lastCmd = "get_upcoming_birthdays" /\ lastResult.kind = "events") =>
        \A i \in 1..Len(book) :
            book[i].rec.birthday # <<>> =>
                (Included(book[i].key) <=>
                    DaysAway(book[i].rec.birthday[1], today.date) \in 0..days)

\* C4, the keys of a result: none is a Saturday or a Sunday, and each
\* contact is under the congratulation date of its next occurrence.
C4_Keys ==
    lastResult.kind = "events" =>
        \A i \in 1..Len(lastResult.data) :
            /\ ~StrptimeRaises(lastResult.data[i].event)
            /\ Weekday(Strptime(lastResult.data[i].event)) < 5
            /\ \A k \in 1..Len(lastResult.data[i].names) :
                   LET bd == FindRec(book, lastResult.data[i].names[k]).birthday[1]
                   IN  lastResult.data[i].event =
                           Strftime(Congratulation(NextOccurrence(bd, today.date)))

\* C4: every contact the query reports is under its occurrence date when
\* that is Monday to Friday and under the first Monday after it otherwise;
\* no key is a Saturday or a Sunday; the query leaves the book, and so the
\* stored birthdays, as they were.
C4_CongratulationDate ==
    []C4_Keys /\ [][lastCmd' = "get_upcoming_birthdays" => book' = book]_vars

\* Alice's occurrence is Saturday 15.03.2025, five days after the reference
\* Monday: she is reported under Monday 17.03.2025.
C4_Witness ==
    /\ lastCmd = "get_upcoming_birthdays"
    /\ today.date = Date(2025, 3, 10)
    /\ lastResult.kind = "events"
    /\ book[1].rec.birthday = <<Date(2000, 3, 15)>>
    /\ \E i \in 1..Len(lastResult.data) :
           /\ lastResult.data[i].event =
                  <<"1", "7", ".", "0", "3", ".", "2", "0", "2", "5">>
           /\ lastResult.data[i].names[1] = "Alice"

\* C5: with a contact born on 29 February and a target year that is not a
\* leap year the query does not raise; that contact's occurrence is 1 March
\* of the target year; every other contact whose occurrence is inside the
\* window is reported.
C5_LeapDay ==
    (lastCmd = "get_upcoming_birthdays"
        /\ ~IsLeap(TargetYear(today))
        /\ \E i \in 1..Len(book) : IsLeapDay(book[i].rec.birthday)) =>
        /\ lastResult.kind = "events"
        /\ \A i \in 1..Len(book) :
               LET b == book[i].rec.birthday IN
               /\ IsLeapDay(b) =>
                      (Included(book[i].key) <=>
                          (ToOrdinal(Date(TargetYear(today), 3, 1))
                              - ToOrdinal(today.date)) \in 0..days)
               /\ (b # <<>> /\ ~IsLeapDay(b) /\ DaysAway(b[1], today.date) \in 1..days)
                      => Included(book[i].key)

\* The phone list of the record a direct Record call was made on.
PhonesOf(bk, args) == FindRec(bk, args[1]).phones

RemoveCalls == {"Record.remove_phone", "hw_07.Record.remove_phone"}

RemoveAgain(cmd, phones, p) ==
    IF cmd = "Record.remove_phone" THEN remove_phone(phones, p)
    ELSE hw_remove_phone(phones, p)

\* C6: on every reachable record, a second remove_phone(p) changes nothing:
\* twice in a row gives the phone list once gives.
C6_Idempotent ==
    [][lastCmd' \in RemoveCalls =>
          RemoveAgain(lastCmd', PhonesOf(book', lastArgs'), lastArgs'[2])
              = PhonesOf(book', lastArgs')]_vars

\* C6 as amended: when the list holds p at most once, the first call leaves
\* the list without p, the other phones in their order, and a second call
\* changes nothing.
C6_IdempotentWithoutDuplicates ==
    [][(lastCmd' \in RemoveCalls /\ Count(PhonesOf(book, lastArgs'), lastArgs'[2]) <= 1) =>
          /\ PhonesOf(book', lastArgs') = Without(PhonesOf(book, lastArgs'), lastArgs'[2])
          /\ RemoveAgain(lastCmd', PhonesOf(book', lastArgs'), lastArgs'[2])
                 = PhonesOf(book', lastArgs')]_vars

\* A remove_phone(p) after which the record has other phones and not p.
C6_Witness ==
    /\ lastCmd = "Record.remove_phone"
    /\ lastArgs[2] \in ValidPhones
    /\ Count(PhonesOf(book, lastArgs), lastArgs[2]) = 0
    /\ Len(PhonesOf(book, lastArgs)) = MaxPhones - 1

\* C7: a command that answers with the message of a validation, lookup or
\* shape error leaves the book as it was.
C7_ErrorLeavesBook ==
    [][(lastCmd' \in Commands /\ IsErrorMessage(lastResult')) => book' = book]_vars

\* A change of a known contact refused for its phone, two contacts stored.
C7_Witness ==
    /\ lastCmd = "change"
    /\ lastResult = Text(PhoneErrorMsg)
    /\ lastArgs[1] \in Keys(book)
    /\ Len(book) = 2

\* The query finds no contact to report.
NoQualifying(bk, now) ==
    LET e == get_upcoming_birthdays(bk, now, DefaultDays)
    IN  e.exc = "none" /\ e.dates = <<>>

\* The parts of C8 on argument counts, unknown names and empty listings.
C8_Common(c, a, r, bk, now) ==
    /\ (c = "add" /\ Len(a) < 2) => r = Text(AddShapeMsg)
    /\ (c = "change" /\ Len(a) < 2) => r = Text(ChangeShapeMsg)
    /\ (c = "add-birthday" /\ Len(a) < 2) => r = Text(BirthdayShapeMsg)
    /\ (c \in {"phone", "show-birthday"} /\ (Len(a) = 0 \/ a[1] \notin Keys(bk)))
           => r = Text(RecordErrorMsg)
    /\ (c = "all" /\ bk = <<>>) => r = Text(EmptyContactsMsg)
    /\ (c = "birthdays" /\ NoQualifying(bk, now)) => r = Text(EmptyBirthdaysMsg)

\* C8: each command answers its failures with its own message; an invalid
\* phone in add or change is answered 'Give me a valid phone number,
\* please.' and an invalid date in add-birthday 'Invalid date format. Use
\* DD.MM.YYYY'.
C8_OwnMessages ==
    [][/\ C8_Common(lastCmd', lastArgs', lastResult', book, today')
       /\ (lastCmd' \in {"add", "change"} /\ Len(lastArgs') >= 2
              /\ lastArgs'[2] \notin ValidPhones)
              => lastResult' = Text(PhoneErrorMsg)
       /\ (lastCmd' = "add-birthday" /\ Len(lastArgs') >= 2
              /\ lastArgs'[2] \in InvalidDates)
              => lastResult' = Text(BirthdayErrorMsg)]_vars

\* C8 as amended: the name is looked up before the second argument is
\* validated.  An invalid phone is answered with the phone message by add
\* for a name that is not a key and by change for a name that is; an invalid
\* date by add-birthday for a name that is a key; change and add-birthday
\* answer an unknown name, and add a known one, whatever follows it.
C8_OwnMessagesLookupFirst ==
    [][/\ C8_Common(lastCmd', lastArgs', lastResult', book, today')
       /\ (lastCmd' = "add" /\ Len(lastArgs') >= 2
              /\ lastArgs'[2] \notin ValidPhones /\ lastArgs'[1] \notin Keys(book))
              => lastResult' = Text(PhoneErrorMsg)
       /\ (lastCmd' = "add" /\ Len(lastArgs') >= 2 /\ lastArgs'[1] \in Keys(book))
              => lastResult' = Text("Contact is already added.")
       /\ (lastCmd' = "change" /\ Len(lastArgs') >= 2
              /\ lastArgs'[2] \notin ValidPhones /\ lastArgs'[1] \in Keys(book))
              => lastResult' = Text(PhoneErrorMsg)
       /\ (lastCmd' \in {"change", "add-birthday"} /\ Len(lastArgs') >= 2
              /\ lastArgs'[1] \notin Keys(book))
              => lastResult' = Text(RecordErrorMsg)
       /\ (lastCmd' = "add-birthday" /\ Len(lastArgs') >= 2
              /\ lastArgs'[2] \in InvalidDates /\ lastArgs'[1] \in Keys(book))
              => lastResult' = Text(BirthdayErrorMsg)]_vars

\* An add-birthday of a known contact refused for its date.
C8_Witness ==
    /\ lastCmd = "add-birthday"
    /\ lastResult = Text(BirthdayErrorMsg)
    /\ lastArgs[1] \in Keys(book)
    /\ lastArgs[2] \in InvalidDates

\* The shape DD.MM.YYYY: two digits, two digits, four digits.
IsDDMMYYYY(s) ==
    /\ Len(s) = 10
    /\ s[3] = "." /\ s[6] = "."
    /\ \A i \in {1, 2, 4, 5, 7, 8, 9, 10} : IsDigit(s[i])

\* C9: show-birthday of a known contact answers the stored birthday as
\* DD.MM.YYYY when there is one and 'Unknown' when there is none.
C9_ShowBirthday ==
    (lastCmd = "show-birthday" /\ Len(lastArgs) >= 1 /\ lastArgs[1] \in Keys(book)) =>
        LET b == FindRec(book, lastArgs[1]).birthday IN
        IF b = <<>> THEN lastResult = Text("Unknown")
        ELSE /\ lastResult.kind = "chars"
             /\ IsDDMMYYYY(lastResult.data)
             /\ Strptime(lastResult.data) = b[1]

\* C10: every record of a book the commands built has exactly one phone, of
\* ten digits, and is stored under its own name.
C10_OnePhoneOwnKey ==
    \A i \in 1..Len(book) :
        /\ Len(book[i].rec.phones) = 1
        /\ Len(book[i].rec.phones[1]) = 10
        /\ \A k \in 1..10 :
               book[i].rec.phones[1][k] \in {"0", "1", "2", "3", "4", "5", "6", "7", "8", "9"}
        /\ book[i].key = book[i].rec.name

\* Two contacts, the phone of one just replaced.
C10_Witness ==
    /\ lastCmd = "change"
    /\ lastResult = Text("Contact updated.")
    /\ Len(book) = 2

====
